---- MODULE Spec2Model ----
(***************************************************************************)
(* Model of pdf_to_table_processor.py: the pipeline process_pdf_document   *)
(* (provision directories, build the client, rasterize the PDF into a      *)
(* timestamped temp folder, send each page to the model, repair the rows,  *)
(* write one CSV, remove the temp folder).  Runs are separate processes    *)
(* that share the filesystem and the wall clock.                           *)
(***************************************************************************)
EXTENDS Integers, Sequences, FiniteSets, TLC

\* ---------------------------------------------------------------- bounds
MaxPages == 2          \* most pages a PDF of the model has
MaxTime == 3           \* the clock stops after this many ticks
TicksPerSecond == 2    \* clock ticks in one second of the "%S" field

Runs == {1, 2}         \* two invocations of the script
SoloRuns == {1}        \* the invocation of the one-run specification

\* ------------------------------------------------------------- constants
OUTPUT_DIR == "output"
TEMP_DIR == "temp"
FieldNames == <<"Commodity Name", "Qty", "UOM">>
RequiredKeys == {FieldNames[i] : i \in 1..Len(FieldNames)}

None == <<>>           \* Python's None, and "no path yet"

\* ------------------------------------------------------------ JSON values
Null == [t |-> "null", s |-> "", n |-> 0]
Str(x) == [t |-> "str", s |-> x, n |-> 0]
Num(k) == [t |-> "num", s |-> "", n |-> k]

EmptyDict == [k \in {} |-> Null]
\* an element met while iterating the parsed response: a dict, or anything else
Dict(d) == [kind |-> "dict", d |-> d]
Other == [kind |-> "other", d |-> EmptyDict]

\* a dict given by the keys it has, out of a full assignment
Restrict(full, keys) == [k \in keys |-> full[k]]
FullWidget == [k \in RequiredKeys \cup {"Price"} |->
                 CASE k = "Commodity Name" -> Str("Widget")
                   [] k = "Qty" -> Num(5)
                   [] k = "UOM" -> Str("KG")
                   [] OTHER -> Num(3)]
WidgetBox == Dict(Restrict([FullWidget EXCEPT !["UOM"] = Str("BOX")], RequiredKeys))
GadgetOnly == Dict([k \in {"Commodity Name"} |-> Str("Gadget")])
NullQty == Dict([Restrict(FullWidget, RequiredKeys) EXCEPT !["Qty"] = Null])
ExtraKey == Dict(Restrict(FullWidget, {"Commodity Name", "Price"}))

\* the value json.loads returns: a list, a dict (iterates its keys), a
\* string (iterates its characters) or a scalar (not iterable)
JList(items) == [kind |-> "list", items |-> items]
JDict(nkeys) == [kind |-> "dict", items |-> [i \in 1..nkeys |-> Other]]
JStr(nchars) == [kind |-> "str", items |-> [i \in 1..nchars |-> Other]]
JScalar == [kind |-> "scalar", items |-> <<>>]

\* the text of message.content[0].text
ValidText(j) == [valid |-> TRUE, json |-> j]
InvalidText == [valid |-> FALSE, json |-> JScalar]

Responses ==
  {InvalidText}
  \cup {ValidText(JList(<<Dict(Restrict(FullWidget, ks))>>)) : ks \in SUBSET RequiredKeys}
  \cup {ValidText(JList(<<WidgetBox>>)), ValidText(JList(<<GadgetOnly>>)),
        ValidText(JList(<<WidgetBox, GadgetOnly>>)),
        ValidText(JList(<<NullQty>>)), ValidText(JList(<<ExtraKey>>)),
        ValidText(JList(<<WidgetBox, Other>>)), ValidText(JList(<<>>)),
        ValidText(JDict(0)), ValidText(JDict(1)), ValidText(JStr(0)),
        ValidText(JStr(1)), ValidText(JScalar)}
ConcResponses == {InvalidText, ValidText(JList(<<WidgetBox>>))}

\* os.getenv('ANTHROPIC_API_KEY'): None, the empty string, or a key
ApiKeys == {None, <<"">>, <<"sk">>}
ConcApiKeys == {<<"sk">>}

\* a source path: directory, base name, extension
PdfPaths == {<<"cipl", "invoice", ".pdf">>, <<"old", "invoice", ".pdf">>,
             <<"cipl", "packing", ".pdf">>}
ConcPdfPaths == {<<"cipl", "invoice", ".pdf">>, <<"old", "invoice", ".pdf">>}

\* ---------------------------------------------------------- pure helpers
\* datetime.now().strftime("%Y%m%d_%H%M%S"): the instant cut to its second
Strftime(t) == t \div TicksPerSecond

\* os.path.splitext(os.path.basename(source_file))[0]
BaseName(path) == path[2]

\* os.path.join(TEMP_DIR, f"pdf_images_{timestamp}")
TempFolderPath(ts) == <<TEMP_DIR, ts>>
\* os.path.join(temp_folder, f"page_{i+1}.jpg")
ImagePath(folder, i) == <<folder, i>>
\* os.path.join(OUTPUT_DIR, f"{base_name}_{timestamp}.csv")
OutputPath(base, ts) == <<OUTPUT_DIR, base, ts>>

\* `if not api_key`
ApiKeyMissingEmptyOnly(key) == key = <<"">>
ApiKeyMissing(key) == key = None \/ key = <<"">>

\* json.loads(response_text)
JsonLoadsLenient(text) == [ok |-> TRUE, value |-> IF text.valid THEN text.json ELSE JList(<<>>)]
JsonLoads(text) == [ok |-> text.valid, value |-> text.json]

\* dict.setdefault(k, v)
SetDefaultOverwrite(d, k, v) == [x \in DOMAIN d \cup {k} |-> IF x = k THEN v ELSE d[x]]
SetDefault(d, k, v) ==
  IF k \in DOMAIN d THEN d
  ELSE [x \in DOMAIN d \cup {k} |-> IF x = k THEN v ELSE d[x]]

\* the condition of the validation `if`
InvalidStructure(item) ==
  item.kind # "dict" \/ ~(\A k \in RequiredKeys : k \in DOMAIN item.d)

\* the three setdefault calls on a dict
FixItem(item) ==
  Dict(SetDefault(SetDefault(SetDefault(item.d, "Commodity Name", Str("")),
                             "Qty", Num(1)), "UOM", Str("BOX")))

\* the validation loop: raises on the first element that is no dict
\* (it has no setdefault), or when the value is not iterable
ValidateRaises(j) ==
  \/ j.kind = "scalar"
  \/ \E i \in 1..Len(j.items) : j.items[i].kind # "dict"
ValidateError(j) == IF j.kind = "scalar" THEN "TypeError" ELSE "AttributeError"
Validate(j) ==
  [j EXCEPT !.items = [i \in 1..Len(j.items) |->
      IF InvalidStructure(j.items[i]) THEN FixItem(j.items[i]) ELSE j.items[i]]]

\* all_results.extend(results)
ExtendPrepend(all, results) == results.items \o all
Extend(all, results) == all \o results.items

\* the loop variable of `enumerate(image_paths, 1)`
NextPageSkip(k) == k + 2
NextPage(k) == k + 1

\* csv.DictWriter: a row's cells in fieldnames order, None written as ''
Cell(v) == IF v.t = "null" THEN "" ELSE IF v.t = "str" THEN v.s ELSE ToString(v.n)
HeaderRow == FieldNames
DictToList(item) == [i \in 1..Len(FieldNames) |-> Cell(item.d[FieldNames[i]])]
\* extrasaction='raise': a key outside fieldnames is a ValueError
HasExtras(item) == DOMAIN item.d \ RequiredKeys # {}
\* the rows written before writerows stops: all of them, or those before
\* the first row with an extra key
RECURSIVE RowsWritten(_)
RowsWritten(data) ==
  IF data = <<>> \/ HasExtras(Head(data)) THEN <<>>
  ELSE <<DictToList(Head(data))>> \o RowsWritten(Tail(data))
WriteRaises(data) == \E i \in 1..Len(data) : HasExtras(data[i])

\* concatenation of the per-page batches, in the order recorded
RECURSIVE Concat(_)
Concat(bs) == IF bs = <<>> THEN <<>> ELSE Head(bs).items \o Concat(Tail(bs))

\* ------------------------------------------------------------------ state
VARIABLES
  now,          \* the wall clock, in ticks
  dirs,         \* which of OUTPUT_DIR and TEMP_DIR exist
  tempDirs,     \* the temp/pdf_images_<ts> folders that exist
  tempFiles,    \* the page images that exist, as ImagePath values
  outFiles,     \* the CSV files of OUTPUT_DIR: path, rows, writer
  pc,           \* where each run is in process_pdf_document
  pdf_path,     \* the argument of the run
  environ,      \* ANTHROPIC_API_KEY in the run's environment
  temp_folder,  \* temp_folder of convert_pdf_to_images, None before it is made
  total_pages,  \* len(images); 0 before convert_from_path has returned
  image_paths,  \* how many page images the run has saved
  page_num,     \* the page the extraction loop is on
  all_results,  \* all_results of process_pdf_document
  output_file,  \* what save_to_csv returned, None before
  error,        \* the exception the run is unwinding with, "" for none
  sent,         \* history: the pages submitted to the model, in order
  received,     \* history: the response texts the model returned, in order
  batches,      \* history: what process_image_with_claude returned, per call
  cleaned       \* history: what cleanup_temp_files did, "not run" before

fsVars == <<dirs, tempDirs, tempFiles, outFiles>>
inputVars == <<pdf_path, environ>>
rasterVars == <<temp_folder, total_pages, image_paths>>
loopVars == <<page_num, all_results, sent, received, batches>>
vars == <<now, dirs, tempDirs, tempFiles, outFiles, pc, pdf_path, environ,
          temp_folder, total_pages, image_paths, page_num, all_results,
          output_file, error, sent, received, batches, cleaned>>

Init ==
  /\ now = 0
  /\ dirs = {}
  /\ tempDirs = {}
  /\ tempFiles = {}
  /\ outFiles = {}
  /\ pc = [r \in Runs |-> "idle"]
  /\ pdf_path = [r \in Runs |-> None]
  /\ environ = [r \in Runs |-> None]
  /\ temp_folder = [r \in Runs |-> None]
  /\ total_pages = [r \in Runs |-> 0]
  /\ image_paths = [r \in Runs |-> 0]
  /\ page_num = [r \in Runs |-> 0]
  /\ all_results = [r \in Runs |-> <<>>]
  /\ output_file = [r \in Runs |-> None]
  /\ error = [r \in Runs |-> ""]
  /\ sent = [r \in Runs |-> <<>>]
  /\ received = [r \in Runs |-> <<>>]
  /\ batches = [r \in Runs |-> <<>>]
  /\ cleaned = [r \in Runs |-> "not run"]

\* an exception raised outside the inner try: the outer handler logs and
\* re-raises, the run ends
RaiseOuter(r, e) ==
  /\ pc' = [pc EXCEPT ![r] = "failed"]
  /\ error' = [error EXCEPT ![r] = e]

\* an exception raised inside the inner try: the finally clause runs next
RaiseInner(r, e) ==
  /\ pc' = [pc EXCEPT ![r] = "cleanup"]
  /\ error' = [error EXCEPT ![r] = e]

Goto(r, label) ==
  /\ pc' = [pc EXCEPT ![r] = label]
  /\ UNCHANGED error

\* the clock advances
Tick ==
  /\ now < MaxTime
  /\ now' = now + 1
  /\ UNCHANGED <<fsVars, pc, inputVars, rasterVars, loopVars, output_file,
                 error, cleaned>>

\* process_pdf_document(pdf_path) is called in a process whose environment
\* holds key
Invoke(r, paths, keys) ==
  /\ pc[r] = "idle"
  /\ \E path \in paths, key \in keys :
       /\ pdf_path' = [pdf_path EXCEPT ![r] = path]
       /\ environ' = [environ EXCEPT ![r] = key]
  /\ Goto(r, "ensure")
  /\ UNCHANGED <<now, fsVars, rasterVars, loopVars, output_file, cleaned>>

\* ensure_directories(): makedirs of OUTPUT_DIR, then of TEMP_DIR
EnsureDirectories(r) ==
  /\ pc[r] = "ensure"
  /\ \/ /\ dirs' = dirs \cup {OUTPUT_DIR, TEMP_DIR}
        /\ Goto(r, "setup")
     \/ /\ \E made \in {{}, {OUTPUT_DIR}} : dirs' = dirs \cup made
        /\ RaiseOuter(r, "OSError")
  /\ UNCHANGED <<now, tempDirs, tempFiles, outFiles, inputVars, rasterVars,
                 loopVars, output_file, cleaned>>

\* setup_anthropic_client()
SetupAnthropicClient(r) ==
  /\ pc[r] = "setup"
  /\ \/ /\ ApiKeyMissing(environ[r])
        /\ RaiseOuter(r, "ValueError")
     \/ /\ ~ApiKeyMissing(environ[r])
        /\ \/ Goto(r, "mktemp")
           \/ RaiseOuter(r, "ClientError")
  /\ UNCHANGED <<now, fsVars, inputVars, rasterVars, loopVars, output_file,
                 cleaned>>

\* convert_pdf_to_images, lines 57-59: the folder name and os.makedirs
MakeTempFolder(r) ==
  /\ pc[r] = "mktemp"
  /\ \/ /\ temp_folder' = [temp_folder EXCEPT ![r] = TempFolderPath(Strftime(now))]
        /\ tempDirs' = tempDirs \cup {TempFolderPath(Strftime(now))}
        /\ dirs' = dirs \cup {TEMP_DIR}
        /\ Goto(r, "rasterize")
     \/ /\ RaiseOuter(r, "OSError")
        /\ UNCHANGED <<temp_folder, tempDirs, dirs>>
  /\ UNCHANGED <<now, tempFiles, outFiles, inputVars, total_pages,
                 image_paths, loopVars, output_file, cleaned>>

\* convert_pdf_to_images, lines 61-70: convert_from_path
Rasterize(r) ==
  /\ pc[r] = "rasterize"
  /\ \/ /\ \E n \in 1..MaxPages : total_pages' = [total_pages EXCEPT ![r] = n]
        /\ Goto(r, "save_image")
     \/ /\ RaiseOuter(r, "PDFError")
        /\ UNCHANGED total_pages
  /\ UNCHANGED <<now, fsVars, inputVars, temp_folder, image_paths, loopVars,
                 output_file, cleaned>>

\* convert_pdf_to_images, lines 72-79: one image.save, and the return once
\* every page is saved
SaveImage(r) ==
  /\ pc[r] = "save_image"
  /\ \/ /\ temp_folder[r] \in tempDirs
        /\ tempFiles' = tempFiles \cup {ImagePath(temp_folder[r], image_paths[r] + 1)}
        /\ image_paths' = [image_paths EXCEPT ![r] = @ + 1]
        /\ IF image_paths[r] + 1 = total_pages[r]
             THEN /\ page_num' = [page_num EXCEPT ![r] = 1]
                  /\ Goto(r, "encode")
             ELSE /\ UNCHANGED page_num
                  /\ Goto(r, "save_image")
     \/ /\ RaiseOuter(r, "OSError")
        /\ UNCHANGED <<tempFiles, image_paths, page_num>>
  /\ UNCHANGED <<now, dirs, tempDirs, outFiles, inputVars, temp_folder,
                 total_pages, all_results, sent, received, batches,
                 output_file, cleaned>>

\* image_to_base64(image_path)
ImageToBase64(r) ==
  /\ pc[r] = "encode"
  /\ \/ /\ ImagePath(temp_folder[r], page_num[r]) \in tempFiles
        /\ Goto(r, "call")
     \/ RaiseInner(r, "OSError")
  /\ UNCHANGED <<now, fsVars, inputVars, rasterVars, loopVars, output_file,
                 cleaned>>

\* process_image_with_claude, lines 98-145: the request goes out
CallModel(r) ==
  /\ pc[r] = "call"
  /\ sent' = [sent EXCEPT ![r] = Append(@, page_num[r])]
  /\ Goto(r, "await")
  /\ UNCHANGED <<now, fsVars, inputVars, rasterVars, page_num, all_results,
                 received, batches, output_file, cleaned>>

\* process_image_with_claude, lines 145-163, and lines 207-208 of the loop:
\* the call returns or raises, the text is parsed, the rows are validated,
\* the batch is appended and the loop moves on
ModelReturn(r, responses) ==
  /\ pc[r] = "await"
  /\ \/ /\ RaiseInner(r, "APIError")
        /\ UNCHANGED <<page_num, all_results, received, batches>>
     \/ \E text \in responses :
          LET parsed == JsonLoads(text) IN
          /\ received' = [received EXCEPT ![r] = Append(@, text)]
          /\
            \/ /\ ~parsed.ok
               /\ RaiseInner(r, "JSONDecodeError")
               /\ UNCHANGED <<page_num, all_results, batches>>
            \/ /\ parsed.ok
               /\ ValidateRaises(parsed.value)
               /\ RaiseInner(r, ValidateError(parsed.value))
               /\ UNCHANGED <<page_num, all_results, batches>>
            \/ /\ parsed.ok
               /\ ~ValidateRaises(parsed.value)
               /\ LET results == Validate(parsed.value) IN
                    /\ all_results' = [all_results EXCEPT ![r] = Extend(@, results)]
                    /\ batches' = [batches EXCEPT ![r] =
                         Append(@, [page |-> page_num[r], items |-> results.items])]
               /\ page_num' = [page_num EXCEPT ![r] = NextPage(@)]
               /\ IF NextPage(page_num[r]) > total_pages[r]
                    THEN Goto(r, "save_csv")
                    ELSE Goto(r, "encode")
  /\ UNCHANGED <<now, fsVars, inputVars, rasterVars, sent, output_file, cleaned>>

\* open(output_file, 'w') and what is written into it
WriteFile(files, path, rows, r) ==
  {f \in files : f.path # path} \cup {[path |-> path, rows |-> rows, by |-> r]}

\* save_to_csv(all_results, pdf_path)
SaveToCsv(r) ==
  /\ pc[r] = "save_csv"
  /\ LET path == OutputPath(BaseName(pdf_path[r]), Strftime(now)) IN
       \/ /\ RaiseInner(r, "OSError")
          /\ UNCHANGED <<outFiles, output_file>>
       \/ /\ WriteRaises(all_results[r])
          /\ outFiles' = WriteFile(outFiles, path,
                                   <<HeaderRow>> \o RowsWritten(all_results[r]), r)
          /\ RaiseInner(r, "ValueError")
          /\ UNCHANGED output_file
       \/ /\ ~WriteRaises(all_results[r])
          /\ outFiles' = WriteFile(outFiles, path,
                                   <<HeaderRow>> \o RowsWritten(all_results[r]), r)
          /\ output_file' = [output_file EXCEPT ![r] = path]
          /\ Goto(r, "cleanup")
  /\ UNCHANGED <<now, dirs, tempDirs, tempFiles, inputVars, rasterVars,
                 loopVars, cleaned>>

\* the files of a folder
FilesIn(folder) == {f \in tempFiles : f[1] = folder}

\* the finally clause: cleanup_temp_files(temp_folder), then the return of
\* output_file or the re-raise of the pending exception
CleanupTempFiles(r) ==
  /\ pc[r] = "cleanup"
  /\ IF temp_folder[r] \in tempDirs
       THEN \/ /\ tempDirs' = tempDirs \ {temp_folder[r]}
               /\ tempFiles' = tempFiles \ FilesIn(temp_folder[r])
               /\ cleaned' = [cleaned EXCEPT ![r] = "removed"]
            \/ /\ \E gone \in SUBSET FilesIn(temp_folder[r]) :
                    tempFiles' = tempFiles \ gone
               /\ UNCHANGED tempDirs
               /\ cleaned' = [cleaned EXCEPT ![r] = "rmtree failed"]
       ELSE /\ UNCHANGED <<tempDirs, tempFiles>>
            /\ cleaned' = [cleaned EXCEPT ![r] = "nothing to remove"]
  /\ pc' = [pc EXCEPT ![r] = IF error[r] = "" THEN "done" ELSE "failed"]
  /\ UNCHANGED <<now, dirs, outFiles, inputVars, rasterVars, loopVars,
                 output_file, error>>

\* one run, started once
Next ==
  \/ Tick
  \/ \E r \in SoloRuns : Invoke(r, PdfPaths, ApiKeys)
  \/ \E r \in SoloRuns : EnsureDirectories(r)
  \/ \E r \in SoloRuns : SetupAnthropicClient(r)
  \/ \E r \in SoloRuns : MakeTempFolder(r)
  \/ \E r \in SoloRuns : Rasterize(r)
  \/ \E r \in SoloRuns : SaveImage(r)
  \/ \E r \in SoloRuns : ImageToBase64(r)
  \/ \E r \in SoloRuns : CallModel(r)
  \/ \E r \in SoloRuns : ModelReturn(r, Responses)
  \/ \E r \in SoloRuns : SaveToCsv(r)
  \/ \E r \in SoloRuns : CleanupTempFiles(r)

Spec == Init /\ [][Next]_vars

\* two runs that share the filesystem and the clock
NextConc ==
  \/ Tick
  \/ \E r \in Runs : Invoke(r, ConcPdfPaths, ConcApiKeys)
  \/ \E r \in Runs : EnsureDirectories(r)
  \/ \E r \in Runs : SetupAnthropicClient(r)
  \/ \E r \in Runs : MakeTempFolder(r)
  \/ \E r \in Runs : Rasterize(r)
  \/ \E r \in Runs : SaveImage(r)
  \/ \E r \in Runs : ImageToBase64(r)
  \/ \E r \in Runs : CallModel(r)
  \/ \E r \in Runs : ModelReturn(r, ConcResponses)
  \/ \E r \in Runs : SaveToCsv(r)
  \/ \E r \in Runs : CleanupTempFiles(r)

SpecConc == Init /\ [][NextConc]_vars

\* ----------------------------------------------------------------- claims
Ended(r) == pc[r] \in {"done", "failed"}

\* the CSV files a run has written
CsvBy(r) == {f \in outFiles : f.by = r}

\* C1: once a run has ended, by return or by exception and whichever step
\* failed, the temporary folder it named does not exist.
C1_TempFolderGoneAtEnd ==
  \A r \in Runs :
    (Ended(r) /\ temp_folder[r] # None) => temp_folder[r] \notin tempDirs

\* a record with the three fields present and non-null
Complete(item) ==
  /\ item.kind = "dict"
  /\ \A k \in RequiredKeys : k \in DOMAIN item.d /\ item.d[k] # Null

\* C2: every record process_image_with_claude returns, and so every record
\* that reaches save_to_csv, has 'Commodity Name', 'Qty' and 'UOM' present
\* and non-null.
C2_RecordsComplete ==
  \A r \in Runs :
    /\ \A i \in 1..Len(batches[r]) : \A j \in 1..Len(batches[r][i].items) :
         Complete(batches[r][i].items[j])
    /\ pc[r] = "save_csv" =>
         \A j \in 1..Len(all_results[r]) : Complete(all_results[r][j])

\* C3: on a successful run over N pages the records given to save_to_csv
\* are batch(1) ++ ... ++ batch(N): one batch per page, pages ascending,
\* each batch in the order returned, and these are the rows of the CSV.
C3_ConcatInPageOrder ==
  \A r \in Runs :
    pc[r] = "done" =>
      /\ Len(batches[r]) = total_pages[r]
      /\ \A i \in 1..Len(batches[r]) : batches[r][i].page = i
      /\ all_results[r] = Concat(batches[r])
      /\ \E f \in outFiles :
           /\ f.path = output_file[r]
           /\ f.rows = <<HeaderRow>> \o
                [j \in 1..Len(all_results[r]) |-> DictToList(all_results[r][j])]

C3_Witness ==
  /\ pc[1] = "done"
  /\ Len(batches[1]) = 2
  /\ Len(batches[1][1].items) = 2
  /\ Len(batches[1][2].items) = 1
  /\ batches[1][1].items[1] # batches[1][1].items[2]
  /\ batches[1][2].items[1] # batches[1][1].items[1]

\* the pages for which the model returned text that is not JSON
InvalidPages(r) == {k \in 1..Len(received[r]) : ~received[r][k].valid}

C5_MissingKeyFailsEarly ==
  \A r \in SoloRuns :
    (pc[r] # "idle" /\ environ[r] = None) =>
      /\ pc[r] \in {"ensure", "setup", "failed"}
      /\ temp_folder[r] = None /\ total_pages[r] = 0 /\ image_paths[r] = 0
      /\ sent[r] = <<>> /\ received[r] = <<>>
      /\ output_file[r] = None
      /\ tempDirs = {} /\ tempFiles = {} /\ outFiles = {}
      /\ dirs \subseteq {OUTPUT_DIR, TEMP_DIR}

C5_Witness ==
  /\ pc[1] = "failed"
  /\ environ[1] = None
  /\ error[1] = "ValueError"
  /\ dirs = {OUTPUT_DIR, TEMP_DIR}

\* a run that has made its temp folder and has not yet ended
UsingFolder(r) ==
  pc[r] \in {"rasterize", "save_image", "encode", "call", "await",
             "save_csv", "cleanup"}

\* C6: two runs that are active together have distinct temporary folders.
C6_DistinctTempFolders ==
  \A r1 \in Runs : \A r2 \in Runs \ {r1} :
    (UsingFolder(r1) /\ UsingFolder(r2)) => temp_folder[r1] # temp_folder[r2]

\* C7: no two successful runs write the same output path; the output
\* directory holds one CSV for each successful run.
C7_UniqueOutputPaths ==
  /\ \A r1 \in Runs : \A r2 \in Runs \ {r1} :
       (pc[r1] = "done" /\ pc[r2] = "done") => output_file[r1] # output_file[r2]
  /\ \A r \in Runs : pc[r] = "done" => \E f \in CsvBy(r) : f.path = output_file[r]

\* the documented defaults
DefaultOf(k) ==
  CASE k = "Commodity Name" -> Str("")
    [] k = "Qty" -> Num(1)
    [] k = "UOM" -> Str("BOX")

\* a response every element of which is a row object
AllRowObjects(text) ==
  /\ text.valid
  /\ text.json.kind = "list"
  /\ \A j \in 1..Len(text.json.items) : text.json.items[j].kind = "dict"

\* C8: for every row object of a page's response, the returned row has the
\* default for exactly the absent required keys and every present key
\* unchanged, and a response of row objects never fails the page; the
\* responses [Widget,5,BOX] and [Gadget] give the rows Widget,5,BOX and
\* Gadget,1,BOX.
C8_DefaultsForAbsentKeys ==
  \A r \in Runs :
    /\ \A i \in 1..Len(received[r]) :
         AllRowObjects(received[r][i]) =>
           /\ i <= Len(batches[r])
           /\ Len(batches[r][i].items) = Len(received[r][i].json.items)
           /\ \A j \in 1..Len(batches[r][i].items) :
                LET in == received[r][i].json.items[j].d
                    out == batches[r][i].items[j].d
                IN /\ batches[r][i].items[j].kind = "dict"
                   /\ DOMAIN out = DOMAIN in \cup RequiredKeys
                   /\ \A k \in DOMAIN in : out[k] = in[k]
                   /\ \A k \in RequiredKeys \ DOMAIN in : out[k] = DefaultOf(k)
    /\ ( /\ pc[r] = "done"
         /\ received[r] = <<ValidText(JList(<<WidgetBox>>)),
                            ValidText(JList(<<GadgetOnly>>))>> )
       => \E f \in outFiles :
            /\ f.path = output_file[r]
            /\ f.rows = <<HeaderRow, <<"Widget", "5", "BOX">>,
                          <<"Gadget", "1", "BOX">> >>

C8_Witness ==
  /\ pc[1] = "done"
  /\ received[1] = <<ValidText(JList(<<Dict(Restrict(FullWidget, {"UOM"}))>>)),
                     ValidText(JList(<<GadgetOnly>>))>>
  /\ batches[1][1].items[1].d["UOM"] = Str("KG")
  /\ batches[1][1].items[1].d["Qty"] = Num(1)
  /\ batches[1][1].items[1].d["Commodity Name"] = Str("")

\* C9: the Failed state is never reached without cleanup_temp_files having
\* run first, whichever state the failure happened in.
C9_CleanupBeforeFailed ==
  \A r \in Runs : pc[r] = "failed" => cleaned[r] # "not run"

\* C10: pages go to the model one at a time in ascending order, page k+1
\* only after page k's call has returned its batch, each page once, N calls
\* on a successful run, all of them after rasterization has finished and
\* before the CSV is written.
C10_SequentialCalls ==
  \A r \in Runs :
    /\ \A i \in 1..Len(sent[r]) : sent[r][i] = i
    /\ Len(sent[r]) <= Len(batches[r]) + 1
    /\ Len(sent[r]) <= total_pages[r]
    /\ sent[r] # <<>> => (total_pages[r] > 0 /\ image_paths[r] = total_pages[r])
    /\ pc[r] = "done" => Len(sent[r]) = total_pages[r]
    /\ CsvBy(r) # {} =>
         /\ Len(sent[r]) = total_pages[r]
         /\ Len(batches[r]) = total_pages[r]
         /\ pc[r] \in {"cleanup", "done", "failed"}

C10_Witness ==
  /\ pc[1] = "done"
  /\ total_pages[1] >= 2
  /\ sent[1] = [i \in 1..total_pages[1] |-> i]
  /\ CsvBy(1) # {}

====
